---- MODULE Spec2Model ----
(***************************************************************************)
(* Model of easy-config (src/config.py): the merge/validation pass         *)
(* Config._update_config, the path-resolution pass                         *)
(* Config._set_absolute_paths, and the Config store (reset, attribute      *)
(* access, get_part).                                                      *)
(*                                                                         *)
(* A configuration tree node is a record                                   *)
(*   [kind, n, abs, parts, m]                                              *)
(* kind is the Python type of the value ("dict", "EasyDict", "list",       *)
(* "str", "int", "NoneType"); n is the payload of an int or the identity   *)
(* of an (opaque) list; abs/parts is the text of a str, read as a path:    *)
(* whether it starts with "/" and its "/"-separated segments; m is the     *)
(* key -> node function of a mapping.  A key is a sequence of tokens, so   *)
(* that "'path' in key" and key.strip() are computed, not assumed.         *)
(* float and bool values behave as int does (a type of their own, no       *)
(* mapping, no str) and are not enumerated; a list is an opaque leaf, as   *)
(* neither pass looks inside one.                                          *)
(***************************************************************************)
EXTENDS Integers, Sequences, FiniteSets, TLC

VARIABLES pc, default_cfg, local_cfg, issues_to_print, result, snap,
          config, _working_dir, _resources_dir,
          default_file, user_file, attrs, _keys, stdout, call, ret

vars == <<pc, default_cfg, local_cfg, issues_to_print, result, snap,
          config, _working_dir, _resources_dir,
          default_file, user_file, attrs, _keys, stdout, call, ret>>

\* the variables of the Config store
storeVars == <<default_file, user_file, attrs, _keys, stdout, call, ret>>

(* ---------------------------------------------------------------------- *)
(* Values                                                                 *)
(* ---------------------------------------------------------------------- *)
EmptyMap == [k \in {} |-> 0]

NoneValue == [kind |-> "NoneType", n |-> 0, abs |-> FALSE, parts |-> <<>>, m |-> EmptyMap]

IntValue(i) == [kind |-> "int", n |-> i, abs |-> FALSE, parts |-> <<>>, m |-> EmptyMap]

ListValue(i) == [kind |-> "list", n |-> i, abs |-> FALSE, parts |-> <<>>, m |-> EmptyMap]

StrValue(a, p) == [kind |-> "str", n |-> 0, abs |-> a, parts |-> p, m |-> EmptyMap]

DictValue(f) == [kind |-> "dict", n |-> 0, abs |-> FALSE, parts |-> <<>>, m |-> f]

\* a source file that does not exist
MissingFile == [kind |-> "missing", n |-> 0, abs |-> FALSE, parts |-> <<>>, m |-> EmptyMap]

\* the value an operation leaves when it raises AttributeError
AttributeErrorValue == [kind |-> "AttributeError", n |-> 0, abs |-> FALSE, parts |-> <<>>, m |-> EmptyMap]

NoCall == [op |-> "", name |-> <<>>, attrs |-> EmptyMap, merged |-> FALSE]

\* the store's variables in the specifications of the pure passes
StoreUnused ==
    /\ default_file = MissingFile
    /\ user_file = MissingFile
    /\ attrs = EmptyMap
    /\ _keys = <<>>
    /\ stdout = {}
    /\ call = NoCall
    /\ ret = NoneValue

\* isinstance(x, dict): EasyDict is a subclass of dict
IsDict(x) == x.kind \in {"dict", "EasyDict"}

\* all mappings from a subset of the keys K to values in V
MapsOver(K, V) == UNION { [S -> V] : S \in SUBSET K }

\* d[key] = value  (key may be new)
SetItem(f, key, value) == [k \in (DOMAIN f) \cup {key} |-> IF k = key THEN value ELSE f[k]]

\* the order in which "for key, value in d.items()" visits the keys of a
\* mapping: one fixed order per key set (the file's insertion order)
RECURSIVE ItemsOrder(_)
ItemsOrder(S) ==
    IF S = {} THEN <<>>
    ELSE LET k == CHOOSE x \in S : TRUE IN <<k>> \o ItemsOrder(S \ {k})

(* ---------------------------------------------------------------------- *)
(* pathlib: a path is [abs, parts]                                        *)
(* ---------------------------------------------------------------------- *)
NoPath == [abs |-> FALSE, parts |-> <<>>]

\* the process's current directory, which Path.absolute() prepends
Cwd == [abs |-> TRUE, parts |-> <<"cwd">>]

NotDot(seg) == seg # "."

\* Path(s) of a str: "." segments are dropped
Path(s) == [abs |-> s.abs, parts |-> SelectSeq(s.parts, NotDot)]

\* str(p): the empty relative path prints as "."
str(p) == IF ~p.abs /\ p.parts = <<>> THEN StrValue(FALSE, <<".">>) ELSE StrValue(p.abs, p.parts)

\* p.absolute()
absolute(p) == IF p.abs THEN p ELSE [abs |-> TRUE, parts |-> Cwd.parts \o p.parts]

\* base.joinpath(value) needs a str (or path) argument
Joinable(value) == value.kind = "str"

joinpath_Concat(base, value) ==
    [abs |-> base.abs, parts |-> base.parts \o Path(value).parts]

\* base.joinpath(value) for a str value: an absolute argument replaces base
joinpath(base, value) ==
    IF Path(value).abs THEN Path(value)
    ELSE [abs |-> base.abs, parts |-> base.parts \o Path(value).parts]

(* ---------------------------------------------------------------------- *)
(* Keys: sequences of tokens                                              *)
(* ---------------------------------------------------------------------- *)
\* "tok in key" for a token of the key alphabet
Contains(key, tok) == \E i \in DOMAIN key : key[i] = tok

RECURSIVE lstrip(_)
lstrip(key) == IF key # <<>> /\ Head(key) = " " THEN lstrip(Tail(key)) ELSE key

RECURSIVE rstrip(_)
rstrip(key) ==
    IF key # <<>> /\ key[Len(key)] = " " THEN rstrip(SubSeq(key, 1, Len(key) - 1)) ELSE key

\* key.strip()
strip(key) == rstrip(lstrip(key))

(* ---------------------------------------------------------------------- *)
(* Config._set_absolute_paths                                             *)
(* ---------------------------------------------------------------------- *)
\* the outcome of a pass in which joinpath raised TypeError
TypeErrorValue == [kind |-> "TypeError", n |-> 0, abs |-> FALSE, parts |-> <<>>, m |-> EmptyMap]

Raised(x) == x.kind = "TypeError"

\* "for sub_key, sub_value in value.items():
\*      value[sub_key] = str(self._resources_dir.joinpath(sub_value))"
RECURSIVE ResourceItems(_, _, _)
ResourceItems(self, value, keys) ==
    IF keys = <<>> THEN value
    ELSE LET sub_key == Head(keys)
             sub_value == value.m[sub_key]
         IN IF ~Joinable(sub_value) THEN TypeErrorValue
            ELSE ResourceItems(self,
                   [value EXCEPT !.m = SetItem(value.m, sub_key,
                                               str(joinpath(self._resources_dir, sub_value)))],
                   Tail(keys))

\* the branch for a non-mapping value: "path" is tested before "location"
LeafRule_LocationFirst(self, key, value) ==
    IF value = NoneValue THEN value
    ELSE IF Contains(key, "location")
    THEN (IF Joinable(value) THEN str(joinpath(self._resources_dir, value)) ELSE TypeErrorValue)
    ELSE IF Contains(key, "path")
    THEN (IF Joinable(value) THEN str(joinpath(self._working_dir, value)) ELSE TypeErrorValue)
    ELSE value

LeafRule(self, key, value) ==
    IF value = NoneValue THEN value
    ELSE IF Contains(key, "path")
    THEN (IF Joinable(value) THEN str(joinpath(self._working_dir, value)) ELSE TypeErrorValue)
    ELSE IF Contains(key, "location")
    THEN (IF Joinable(value) THEN str(joinpath(self._resources_dir, value)) ELSE TypeErrorValue)
    ELSE value

RECURSIVE _set_absolute_paths(_, _)
RECURSIVE ResolveItems(_, _, _)

\* the loop "for key, value in d.items()" over the remaining keys
ResolveItems(self, d, keys) ==
    IF keys = <<>> THEN d
    ELSE
      LET key == Head(keys)
          value == d.m[key]
          new == IF IsDict(value)
                 THEN (IF strip(key) = <<"resources">>
                       THEN ResourceItems(self, value, ItemsOrder(DOMAIN value.m))
                       ELSE _set_absolute_paths(self, value))
                 ELSE LeafRule(self, key, value)
      IN IF Raised(new) THEN TypeErrorValue
         ELSE ResolveItems(self, [d EXCEPT !.m = SetItem(d.m, key, new)], Tail(keys))

_set_absolute_paths(self, d) == ResolveItems(self, d, ItemsOrder(DOMAIN d.m))

(* ---------------------------------------------------------------------- *)
(* Config._update_config                                                  *)
(* ---------------------------------------------------------------------- *)
\* f'{config_name} has different types: {type(default_cfg)} and {type(local_cfg)}\n'
TypesIssue(config_name, t1, t2) ==
    [issue |-> "different types", name |-> config_name, key |-> <<>>, t1 |-> t1, t2 |-> t2]

\* f'No key in {config_name} -> {key}\n'
NoKeyIssue(config_name, key) ==
    [issue |-> "No key", name |-> config_name, key |-> key, t1 |-> "", t2 |-> ""]

RECURSIVE _update_config(_, _, _)
RECURSIVE UpdateItems(_, _, _, _)

\* "if key not in default_cfg": the issue is recorded, the key is not added
KeyMissing_KeepsResult(acc, config_name, key) ==
    [cfg |-> acc.cfg,
     issues |-> Append(acc.issues, NoKeyIssue(config_name, key)),
     result |-> acc.result]

KeyMissing_AddsKey(acc, config_name, key) ==
    [cfg |-> [acc.cfg EXCEPT !.m = SetItem(acc.cfg.m, key, NoneValue)],
     issues |-> Append(acc.issues, NoKeyIssue(config_name, key)),
     result |-> FALSE]

KeyMissing(acc, config_name, key) ==
    [cfg |-> acc.cfg,
     issues |-> Append(acc.issues, NoKeyIssue(config_name, key)),
     result |-> FALSE]

\* "elif isinstance(value, dict)": recursion under the extended label
KeyRecurse(acc, config_name, key, value) ==
    LET new_str == Append(config_name, key)
        sub == _update_config(acc.cfg.m[key], value, new_str)
    IN [cfg |-> [acc.cfg EXCEPT !.m = SetItem(acc.cfg.m, key, sub.cfg)],
        issues |-> acc.issues \o sub.issues,
        result |-> sub.result /\ acc.result]

\* "else: default_cfg[key] = value"
KeyAssign_Skips(acc, key, value) == acc

KeyAssign(acc, key, value) ==
    [cfg |-> [acc.cfg EXCEPT !.m = SetItem(acc.cfg.m, key, value)],
     issues |-> acc.issues,
     result |-> acc.result]

\* the loop "for key, value in local_cfg.items()" over the remaining keys;
\* acc is [cfg, issues, result] so far
UpdateItems(acc, lcfg, keys, config_name) ==
    IF keys = <<>> THEN acc
    ELSE
      LET key == Head(keys)
          value == lcfg.m[key]
          step ==
            IF key \notin DOMAIN acc.cfg.m THEN KeyMissing(acc, config_name, key)
            ELSE IF IsDict(value) THEN KeyRecurse(acc, config_name, key, value)
            ELSE KeyAssign(acc, key, value)
      IN UpdateItems(step, lcfg, Tail(keys), config_name)

_update_config(dcfg, lcfg, config_name) ==
    IF dcfg.kind # lcfg.kind
    THEN [cfg |-> dcfg,
          issues |-> << TypesIssue(config_name, dcfg.kind, lcfg.kind) >>,
          result |-> FALSE]
    ELSE IF IsDict(lcfg)
    THEN UpdateItems([cfg |-> dcfg, issues |-> <<>>, result |-> TRUE],
                     lcfg, ItemsOrder(DOMAIN lcfg.m), config_name)
    ELSE [cfg |-> dcfg, issues |-> <<>>, result |-> TRUE]

(* ---------------------------------------------------------------------- *)
(* Merge specification: the inputs of _update_config are drawn from       *)
(* bounded sets of trees, the pass is applied, and applied once more.     *)
(* ---------------------------------------------------------------------- *)
MaxInt == 1

K_general == <<"general">>
K_feature == <<"feature">>
K_threshold == <<"threshold">>
K_thresholdx == <<"thresholdx">>

MergeLeaves == { IntValue(i) : i \in 1..MaxInt } \cup { StrValue(FALSE, <<"s">>), ListValue(1) }

\* third level: an empty mapping under an inner key
MergeInnerValues == MergeLeaves \cup { DictValue(EmptyMap) }

DefaultInner == { DictValue(f) : f \in MapsOver({K_threshold}, MergeInnerValues) }
LocalInner == { DictValue(f) : f \in MapsOver({K_threshold, K_thresholdx}, MergeInnerValues) }

MergeDefaults ==
    { DictValue(f) : f \in MapsOver({K_general, K_feature}, MergeLeaves \cup DefaultInner) }
      \cup MergeLeaves
MergeLocals ==
    { DictValue(f) : f \in MapsOver({K_general, K_feature}, MergeLeaves \cup LocalInner) }
      \cup MergeLeaves

SourceName == << <<"config-default.yaml">> >>

NoSnap == [orig |-> NoneValue, cfg |-> NoneValue, issues |-> <<>>, result |-> TRUE]

MergeInit ==
    /\ pc = "start"
    /\ default_cfg \in MergeDefaults
    /\ local_cfg \in MergeLocals
    /\ issues_to_print = <<>>
    /\ result = TRUE
    /\ snap = NoSnap
    /\ config = NoneValue
    /\ _working_dir = NoPath
    /\ _resources_dir = NoPath
    /\ StoreUnused

\* is_valid = self._update_config(config, local_config, config_name=..., issues_to_print=[])
Merge ==
    /\ pc = "start"
    /\ LET r == _update_config(default_cfg, local_cfg, SourceName)
       IN /\ default_cfg' = r.cfg
          /\ issues_to_print' = r.issues
          /\ result' = r.result
          /\ snap' = [NoSnap EXCEPT !.orig = default_cfg]
    /\ pc' = "merged"
    /\ UNCHANGED <<local_cfg, config, _working_dir, _resources_dir, storeVars>>

\* the same local tree merged into the result again, with a fresh issue list
MergeAgain ==
    /\ pc = "merged"
    /\ LET r == _update_config(default_cfg, local_cfg, SourceName)
       IN /\ default_cfg' = r.cfg
          /\ issues_to_print' = r.issues
          /\ result' = r.result
          /\ snap' = [snap EXCEPT !.cfg = default_cfg, !.issues = issues_to_print,
                                  !.result = result]
    /\ pc' = "merged again"
    /\ UNCHANGED <<local_cfg, config, _working_dir, _resources_dir, storeVars>>

MergeNext == Merge \/ MergeAgain

MergeSpec == MergeInit /\ [][MergeNext]_vars

(* ---------------------------------------------------------------------- *)
(* Key paths of a tree                                                    *)
(* ---------------------------------------------------------------------- *)
\* the non-empty key paths of a tree
RECURSIVE Paths(_)
Paths(t) ==
    IF IsDict(t)
    THEN UNION { {<<k>>} \cup { <<k>> \o p : p \in Paths(t.m[k]) } : k \in DOMAIN t.m }
    ELSE {}

\* the node at a key path that the tree has
RECURSIVE At(_, _)
At(t, p) == IF p = <<>> THEN t ELSE At(t.m[Head(p)], Tail(p))

Has(t, p) == p = <<>> \/ p \in Paths(t)

Front(p) == SubSeq(p, 1, Len(p) - 1)

Last(p) == p[Len(p)]

Count(seq, x) == Cardinality({ i \in DOMAIN seq : seq[i] = x })

\* the positions at which the merge compares a local mapping with a
\* default mapping: the roots, and below a compared position every key of
\* both mappings under which both trees hold a mapping
RECURSIVE Compared(_, _, _)
Compared(D, L, p) ==
    /\ Has(D, p) /\ Has(L, p)
    /\ IsDict(At(D, p)) /\ IsDict(At(L, p))
    /\ At(D, p).kind = At(L, p).kind
    /\ p # <<>> => Compared(D, L, Front(p))

\* the (position, key) pairs of local keys absent from the default mapping
\* they are compared against
UnknownKeys(D, L) ==
    { <<p, k>> \in ((Paths(L) \cup {<<>>}) \X {K_general, K_feature, K_threshold, K_thresholdx}) :
         /\ Compared(D, L, p)
         /\ k \in DOMAIN At(L, p).m
         /\ k \notin DOMAIN At(D, p).m }

NoKeyIssues(issues) == { i \in DOMAIN issues : issues[i].issue = "No key" }

\* every key of the local tree exists in the default tree at the same position
AllKeysKnown(D, L) == Paths(L) \subseteq Paths(D)

\* no local mapping stands where the default holds a non-mapping, and the
\* roots have the same type
NoMappingOverLeaf(D, L) ==
    /\ D.kind = L.kind
    /\ \A p \in Paths(L) \cap Paths(D) : IsDict(At(L, p)) => IsDict(At(D, p))

(* ---------------------------------------------------------------------- *)
(* Claims about the merge                                                 *)
(* ---------------------------------------------------------------------- *)
\* C1: every local key absent from the default mapping it is compared
\* against gets exactly one "No key" issue (and no other "No key" issue is
\* recorded), makes the result False and is not added to the default tree;
\* the leaves under every other compared key are still merged.
C1_UnknownKeys ==
    pc = "merged" =>
      LET D == snap.orig
          U == UnknownKeys(D, local_cfg)
      IN /\ \A u \in U :
               /\ Count(issues_to_print, NoKeyIssue(SourceName \o u[1], u[2])) = 1
               /\ result = FALSE
               /\ Has(default_cfg, u[1])
               /\ u[2] \notin DOMAIN At(default_cfg, u[1]).m
         /\ Cardinality(NoKeyIssues(issues_to_print)) = Cardinality(U)
         /\ \A p \in Paths(local_cfg) \cap Paths(D) :
               (Compared(D, local_cfg, Front(p)) /\ ~IsDict(At(local_cfg, p)))
                  => (Has(default_cfg, p) /\ At(default_cfg, p) = At(local_cfg, p))

\* an unknown key below "feature" and a leaf under "general" merged in the
\* same pass
C1_Witness ==
    /\ pc = "merged"
    /\ <<<<K_feature>>, K_thresholdx>> \in UnknownKeys(snap.orig, local_cfg)
    /\ K_general \in DOMAIN snap.orig.m
    /\ K_general \in DOMAIN local_cfg.m
    /\ ~IsDict(local_cfg.m[K_general])
    /\ snap.orig.m[K_general] # local_cfg.m[K_general]
    /\ default_cfg.m[K_general] = local_cfg.m[K_general]

\* C2 (as claimed): wherever the two trees hold values of different kinds
\* at the same path, an issue for that path is recorded and the result is
\* False.
C2_KindMismatchReported ==
    pc = "merged" =>
      \A p \in (Paths(snap.orig) \cap Paths(local_cfg)) \cup {<<>>} :
         At(snap.orig, p).kind # At(local_cfg, p).kind =>
            /\ \E i \in DOMAIN issues_to_print :
                  /\ issues_to_print[i].issue = "different types"
                  /\ issues_to_print[i].name = SourceName \o p
            /\ result = FALSE

\* C3 (as claimed): every key path of the default tree that the local tree
\* does not have is still there after the merge, with its value.
C3_DefaultOnlyKeysSurvive ==
    pc = "merged" =>
      \A p \in Paths(snap.orig) \ Paths(local_cfg) :
         Has(default_cfg, p) /\ At(default_cfg, p) = At(snap.orig, p)

\* the leaves both trees hold at the same key path take the local value
BothLeavesMerged ==
    \A p \in Paths(snap.orig) \cap Paths(local_cfg) :
       (~IsDict(At(snap.orig, p)) /\ ~IsDict(At(local_cfg, p)))
          => (Has(default_cfg, p) /\ At(default_cfg, p) = At(local_cfg, p))

\* C4 (as claimed, for two documents that are mappings): leaves held by
\* both trees take the local value, and when every local key exists in the
\* default tree the merge records no issue and returns True.
C4_Original ==
    (pc = "merged" /\ IsDict(snap.orig) /\ IsDict(local_cfg)) =>
      /\ BothLeavesMerged
      /\ AllKeysKnown(snap.orig, local_cfg) => (issues_to_print = <<>> /\ result = TRUE)

\* C4 (amended): leaves held by both trees take the local value, and when
\* every local key exists in the default tree, no local mapping stands
\* where the default holds a non-mapping and the roots have the same type,
\* the merge records no issue and returns True.
C4_LeavesMerged ==
    pc = "merged" =>
      /\ BothLeavesMerged
      /\ (AllKeysKnown(snap.orig, local_cfg) /\ NoMappingOverLeaf(snap.orig, local_cfg))
            => (issues_to_print = <<>> /\ result = TRUE)

\* a nested leaf overridden by a different local value, without issues
C4_Witness ==
    /\ pc = "merged"
    /\ <<K_feature, K_threshold>> \in Paths(snap.orig) \cap Paths(local_cfg)
    /\ ~IsDict(At(snap.orig, <<K_feature, K_threshold>>))
    /\ ~IsDict(At(local_cfg, <<K_feature, K_threshold>>))
    /\ At(snap.orig, <<K_feature, K_threshold>>) # At(local_cfg, <<K_feature, K_threshold>>)
    /\ At(default_cfg, <<K_feature, K_threshold>>) = At(local_cfg, <<K_feature, K_threshold>>)
    /\ issues_to_print = <<>>
    /\ result = TRUE

\* C9 (as claimed, for two documents that are mappings): a second merge
\* of the same local tree leaves the merged tree as it was and records
\* zero issues.
C9_Original ==
    (pc = "merged again" /\ IsDict(snap.orig) /\ IsDict(local_cfg)) =>
       (default_cfg = snap.cfg /\ issues_to_print = <<>>)

\* C9 (amended): a second merge of the same local tree leaves the merged
\* tree as it was and records exactly the issues (and returns the result)
\* of the first merge: zero issues when the first merge recorded none.
C9_MergeIdempotent ==
    pc = "merged again" =>
      /\ default_cfg = snap.cfg
      /\ issues_to_print = snap.issues
      /\ result = snap.result

\* the first merge changed the default tree and recorded an issue
C9_Witness ==
    /\ pc = "merged again"
    /\ snap.cfg # snap.orig
    /\ snap.issues # <<>>
    /\ default_cfg = snap.cfg

(* ---------------------------------------------------------------------- *)
(* Resolve specification: a tree and the two base directories are drawn   *)
(* from bounded sets, the pass is applied, and applied once more.         *)
(* ---------------------------------------------------------------------- *)
K_model == <<"model">>
K_resources == <<"resources">>
K_resources_sp == <<" ", "resources", " ">>
K_weights_path == <<"weights", "_", "path">>
K_data_location == <<"data", "_", "location">>
K_path_location == <<"path", "_", "location">>
K_name == <<"name">>
K_icon == <<"icon">>

S_rel == StrValue(FALSE, <<".", "w.bin">>)
S_abs == StrValue(TRUE, <<"etc", "x">>)

\* no mapping, or the mapping of the one key k to a value of V
OptMaps(k, V) == {EmptyMap} \cup { k :> v : v \in V }

ResolveLeaves == { S_rel, S_abs, NoneValue, IntValue(1) }

ResolveInner ==
    { DictValue(a @@ b) : a \in OptMaps(K_path_location, {S_rel, NoneValue, ListValue(1)}),
                          b \in OptMaps(K_icon, {S_rel, S_abs, DictValue(EmptyMap)}) }

ResolveSections ==
    { DictValue(a @@ b @@ c) :
        a \in OptMaps(K_resources_sp, ResolveInner \cup {S_rel}),
        b \in OptMaps(K_data_location, ResolveLeaves),
        c \in OptMaps(K_name, {S_rel, DictValue(K_weights_path :> S_rel)}) }

ResolveTrees ==
    { DictValue(a @@ b @@ c) :
        a \in OptMaps(K_model, ResolveSections \cup {NoneValue}),
        b \in OptMaps(K_resources, ResolveInner),
        c \in OptMaps(K_path_location, {S_rel, IntValue(1)}) }

WorkingDirs == { absolute(Path(StrValue(FALSE, <<".">>))) }
ResourcesDirs == { absolute(Path(StrValue(FALSE, <<".", "res">>))), Path(StrValue(TRUE, <<"srv", "res">>)) }

Self == [_working_dir |-> _working_dir, _resources_dir |-> _resources_dir]

ResolveInit ==
    /\ pc = "start"
    /\ config \in ResolveTrees
    /\ _working_dir \in WorkingDirs
    /\ _resources_dir \in ResourcesDirs
    /\ default_cfg = NoneValue
    /\ local_cfg = NoneValue
    /\ issues_to_print = <<>>
    /\ result = TRUE
    /\ snap = NoSnap
    /\ StoreUnused

\* self._set_absolute_paths(config); a TypeError of joinpath ends the pass
Resolve ==
    /\ pc = "start"
    /\ LET r == _set_absolute_paths(Self, config)
       IN IF Raised(r)
          THEN pc' = "TypeError" /\ config' = config
          ELSE pc' = "resolved" /\ config' = r
    /\ snap' = [NoSnap EXCEPT !.orig = config]
    /\ UNCHANGED <<default_cfg, local_cfg, issues_to_print, result, _working_dir, _resources_dir, storeVars>>

\* the pass run a second time on the tree it has resolved
ResolveAgain ==
    /\ pc = "resolved"
    /\ LET r == _set_absolute_paths(Self, config)
       IN IF Raised(r)
          THEN pc' = "TypeError again" /\ config' = config
          ELSE pc' = "resolved again" /\ config' = r
    /\ snap' = [snap EXCEPT !.cfg = config]
    /\ UNCHANGED <<default_cfg, local_cfg, issues_to_print, result, _working_dir, _resources_dir, storeVars>>

ResolveNext == Resolve \/ ResolveAgain

ResolveSpec == ResolveInit /\ [][ResolveNext]_vars

(* ---------------------------------------------------------------------- *)
(* Claims about path resolution                                           *)
(* ---------------------------------------------------------------------- *)
\* the mapping at p is one the pass recurses into: the root, or a mapping
\* whose key is not "resources" inside a mapping the pass recurses into
RECURSIVE Walked(_, _)
Walked(T, p) ==
    \/ p = <<>>
    \/ /\ IsDict(At(T, p))
       /\ strip(Last(p)) # K_resources
       /\ Walked(T, Front(p))

\* the mapping at p is handled by the "resources" rule
IsResources(T, p) ==
    /\ p # <<>>
    /\ IsDict(At(T, p))
    /\ strip(Last(p)) = K_resources
    /\ Walked(T, Front(p))

\* the values the claim resolves against the resources directory
ToResourcesDir(T) ==
    { p \in Paths(T) :
        \/ IsResources(T, Front(p))
        \/ /\ Walked(T, Front(p)) /\ ~IsDict(At(T, p)) /\ At(T, p) # NoneValue
           /\ ~Contains(Last(p), "path") /\ Contains(Last(p), "location") }

\* the values the claim resolves against the working directory
ToWorkingDir(T) ==
    { p \in Paths(T) :
        /\ Walked(T, Front(p)) /\ ~IsDict(At(T, p)) /\ At(T, p) # NoneValue
        /\ Contains(Last(p), "path") }

\* C7: the pass keeps the shape of the tree; every value directly inside a
\* "resources" mapping (key trimmed) becomes resources_dir / value and that
\* mapping is not descended into; in every other mapping, at every depth,
\* a non-null non-mapping value becomes working_dir / value when its key
\* contains "path", else resources_dir / value when its key contains
\* "location", and is otherwise unchanged.  ("/" is joinpath, which
\* raises TypeError exactly when one of these values is not a str.)
C7_PathResolution ==
    LET T == snap.orig
        W == ToWorkingDir(T)
        R == ToResourcesDir(T)
    IN /\ pc = "TypeError" => \E p \in W \cup R : ~Joinable(At(T, p))
       /\ pc = "resolved" =>
            /\ \A p \in W \cup R : Joinable(At(T, p))
            /\ Paths(config) = Paths(T)
            /\ \A p \in Paths(T) :
                  IF p \in W THEN At(config, p) = str(joinpath(_working_dir, At(T, p)))
                  ELSE IF p \in R THEN At(config, p) = str(joinpath(_resources_dir, At(T, p)))
                  ELSE IF IsDict(At(T, p)) THEN IsDict(At(config, p))
                  ELSE At(config, p) = At(T, p)

\* a pass that applied the "resources" rule two levels down, resolved a key
\* containing both "path" and "location" inside it against the resources
\* directory, and resolved the same key at the top against the working
\* directory
C7_Witness ==
    /\ pc = "resolved"
    /\ <<K_model, K_resources_sp, K_path_location>> \in ToResourcesDir(snap.orig)
    /\ <<K_model, K_data_location>> \in ToResourcesDir(snap.orig)
    /\ <<K_path_location>> \in ToWorkingDir(snap.orig)
    /\ <<K_model, K_name, K_weights_path>> \in ToWorkingDir(snap.orig)
    /\ At(config, <<K_path_location>>) = StrValue(TRUE, <<"cwd", "w.bin">>)
    /\ _resources_dir.parts = <<"srv", "res">>
    /\ At(config, <<K_model, K_resources_sp, K_path_location>>) = StrValue(TRUE, <<"srv", "res", "w.bin">>)

\* C8 (as claimed): a second pass over a tree whose first pass rewrote
\* some value does not leave the tree as the first pass left it.
C8_Original ==
    (pc = "resolved again" /\ ToWorkingDir(snap.orig) \cup ToResourcesDir(snap.orig) # {})
       => config # snap.cfg

\* C8 (amended): a second pass with the same base directories leaves the
\* tree exactly as the first pass left it, because joining a base
\* directory with an already absolute path yields that absolute path.
C8_ResolutionIdempotent ==
    /\ pc # "TypeError again"
    /\ pc = "resolved again" => config = snap.cfg

\* the first pass rewrote values and the second pass went over them again
C8_Witness ==
    /\ pc = "resolved again"
    /\ snap.cfg # snap.orig
    /\ <<K_path_location>> \in ToWorkingDir(snap.cfg)
    /\ <<K_model, K_data_location>> \in ToResourcesDir(snap.cfg)
    /\ At(snap.cfg, <<K_path_location>>) = StrValue(TRUE, <<"cwd", "w.bin">>)

(* ---------------------------------------------------------------------- *)
(* The Config store                                                       *)
(* ---------------------------------------------------------------------- *)
K_working_dir == <<"working", "_", "dir">>
K_resources_dir == <<"resources", "_", "dir">>
K_timeout == <<"timeout">>
K_modelx == <<"modelx">>

Range(seq) == { seq[i] : i \in DOMAIN seq }

\* EasyDict(d): every nested dict becomes an EasyDict
RECURSIVE EasyDict(_)
EasyDict(x) ==
    IF x.kind = "dict"
    THEN [x EXCEPT !.kind = "EasyDict", !.m = [k \in DOMAIN x.m |-> EasyDict(x.m[k])]]
    ELSE x

\* Config._read_config: open() fails on a missing file, an empty document
\* is reported and the process exits
_read_config(source) ==
    IF source = MissingFile THEN [status |-> "raise", config |-> NoneValue, stdout |-> {}]
    ELSE IF source = NoneValue THEN [status |-> "exit", config |-> NoneValue, stdout |-> {"is empty"}]
    ELSE [status |-> "ok", config |-> source, stdout |-> {}]

\* "if len(config_issues) > 1: print(report)"
ReportPrinted(config_issues) == Len(config_issues) > 1

\* config['general']['working_dir'] and ['resources_dir'] can be read and
\* given to Path()
GeneralUsable(cfg) ==
    /\ IsDict(cfg)
    /\ K_general \in DOMAIN cfg.m
    /\ IsDict(cfg.m[K_general])
    /\ K_working_dir \in DOMAIN cfg.m[K_general].m
    /\ K_resources_dir \in DOMAIN cfg.m[K_general].m
    /\ Joinable(cfg.m[K_general].m[K_working_dir])
    /\ Joinable(cfg.m[K_general].m[K_resources_dir])

\* the outcome of _load_config that ends before the merged tree is returned
LoadEnds(self, status, out, merged, issues, valid) ==
    [status |-> status, config |-> NoneValue, stdout |-> out, merged |-> merged,
     issues |-> issues, is_valid |-> valid,
     _working_dir |-> self._working_dir, _resources_dir |-> self._resources_dir]

\* Config._load_config
_load_config(self, dfile, ufile) ==
    LET r1 == _read_config(dfile)
        exists == ufile # MissingFile
        r2 == IF exists THEN _read_config(ufile)
              ELSE [status |-> "ok", config |-> DictValue(EmptyMap), stdout |-> {}]
        u == _update_config(r1.config, r2.config, SourceName)
        out == IF ReportPrinted(u.issues) THEN {"report"} ELSE {}
        general == u.cfg.m[K_general]
        wd == absolute(Path(general.m[K_working_dir]))
        rd == absolute(Path(general.m[K_resources_dir]))
        cfg1 == [u.cfg EXCEPT !.m = SetItem(u.cfg.m, K_general,
                    [general EXCEPT !.m = SetItem(general.m, K_working_dir, str(wd))])]
        new_self == [_working_dir |-> wd, _resources_dir |-> rd]
        cfg2 == _set_absolute_paths(new_self, cfg1)
    IN IF r1.status # "ok" THEN LoadEnds(self, r1.status, r1.stdout, FALSE, <<>>, TRUE)
       ELSE IF r2.status # "ok" THEN LoadEnds(self, r2.status, r2.stdout, FALSE, <<>>, TRUE)
       ELSE IF ~u.result THEN LoadEnds(self, "exit", out, TRUE, u.issues, FALSE)
       ELSE IF ~GeneralUsable(u.cfg) THEN LoadEnds(self, "raise", out, TRUE, u.issues, TRUE)
       ELSE IF Raised(cfg2) THEN LoadEnds(new_self, "raise", out, TRUE, u.issues, TRUE)
       ELSE [status |-> "ok", config |-> cfg2, stdout |-> out, merged |-> TRUE,
             issues |-> u.issues, is_valid |-> TRUE,
             _working_dir |-> wd, _resources_dir |-> rd]

\* "for key in self._keys: delattr(self, key)"
ClearAttrs_KeepsOld(a, keys) == a

ClearAttrs(a, keys) == [k \in (DOMAIN a) \ Range(keys) |-> a[k]]

\* "for k, v in d.items(): setattr(self, k, v)"
ExposeAttrs(a, d) == [k \in (DOMAIN a) \cup (DOMAIN d.m) |-> IF k \in DOMAIN d.m THEN d.m[k] ELSE a[k]]

\* Config.__getattr__ / __getitem__: an attribute the instance has is
\* returned, any other name raises AttributeError
__getattr__(a, name) == IF name \in DOMAIN a THEN a[name] ELSE AttributeErrorValue

\* dict.update
Update(f, g) == [k \in (DOMAIN f) \cup (DOMAIN g) |-> IF k \in DOMAIN g THEN g[k] ELSE f[k]]

\* copy.deepcopy: an equal value that shares nothing with the original
deepcopy(x) == x

get_part_SectionWins(a, subconfig) ==
    LET sec == __getattr__(a, subconfig)
        partial_config == IF sec = NoneValue THEN DictValue(EmptyMap) ELSE deepcopy(sec)
        general == __getattr__(a, K_general)
    IN IF sec = AttributeErrorValue \/ ~IsDict(partial_config) \/ ~IsDict(general)
       THEN [ret |-> AttributeErrorValue, attrs |-> a]
       ELSE [ret |-> [partial_config EXCEPT !.m = Update(general.m, partial_config.m)],
             attrs |-> a]

\* Config.get_part: the value returned and the attributes afterwards; a
\* section that is neither a mapping nor None has no update()
get_part(a, subconfig) ==
    LET sec == __getattr__(a, subconfig)
        partial_config == IF sec = NoneValue THEN DictValue(EmptyMap) ELSE deepcopy(sec)
        general == __getattr__(a, K_general)
    IN IF sec = AttributeErrorValue \/ ~IsDict(partial_config) \/ ~IsDict(general)
       THEN [ret |-> AttributeErrorValue, attrs |-> a]
       ELSE [ret |-> [partial_config EXCEPT !.m = Update(partial_config.m, general.m)],
             attrs |-> a]

\* the sources
General1 == DictValue(K_working_dir :> StrValue(FALSE, <<".">>)
                        @@ K_resources_dir :> StrValue(FALSE, <<".", "res">>))
General2 == DictValue(General1.m @@ K_timeout :> IntValue(30))

FeatureSection == DictValue(K_threshold :> IntValue(5) @@ K_timeout :> IntValue(7))

DefaultFiles ==
    { DictValue(a @@ b @@ c) :
        a \in { K_general :> General1, K_general :> General2 },
        b \in OptMaps(K_model, { NoneValue, IntValue(1),
                                 DictValue(K_weights_path :> StrValue(FALSE, <<"w.bin">>)),
                                 DictValue(K_resources :> DictValue(K_icon :> StrValue(FALSE, <<"logo.png">>))) }),
        c \in OptMaps(K_feature, { FeatureSection }) }
      \cup { MissingFile, NoneValue }

UserFiles ==
    { MissingFile, NoneValue, DictValue(EmptyMap),
      DictValue(K_feature :> DictValue(K_threshold :> IntValue(9))),
      DictValue(K_feature :> DictValue(K_thresholdx :> IntValue(9))),
      DictValue(K_feature :> DictValue(K_thresholdx :> IntValue(9)) @@ K_modelx :> IntValue(1)),
      DictValue(K_model :> DictValue(K_weights_path :> StrValue(FALSE, <<"v.bin">>))),
      DictValue(K_model :> StrValue(FALSE, <<"s">>)) }

SectionNames == { K_general, K_model, K_feature, K_modelx }

Unused ==
    /\ default_cfg = NoneValue
    /\ local_cfg = NoneValue
    /\ snap = NoSnap

Init ==
    /\ pc = "uninitialized"
    /\ default_file = MissingFile
    /\ user_file = MissingFile
    /\ attrs = EmptyMap
    /\ _keys = <<>>
    /\ stdout = {}
    /\ call = NoCall
    /\ ret = NoneValue
    /\ config = NoneValue
    /\ issues_to_print = <<>>
    /\ result = TRUE
    /\ _working_dir = NoPath
    /\ _resources_dir = NoPath
    /\ Unused

\* Config.reset: the exposed attributes are removed, the sources are
\* loaded, merged and resolved, and the top-level keys are exposed
reset(dfile, ufile) ==
    LET cleared == ClearAttrs(attrs, _keys)
        l == _load_config(Self, dfile, ufile)
        d == EasyDict(l.config)
    IN /\ default_file' = dfile
       /\ user_file' = ufile
       /\ call' = [NoCall EXCEPT !.op = "reset", !.merged = l.merged]
       /\ stdout' = l.stdout
       /\ issues_to_print' = l.issues
       /\ result' = l.is_valid
       /\ _working_dir' = l._working_dir
       /\ _resources_dir' = l._resources_dir
       /\ config' = l.config
       /\ ret' = NoneValue
       /\ IF l.status = "ok"
          THEN /\ attrs' = ExposeAttrs(cleared, d)
               /\ _keys' = ItemsOrder(DOMAIN d.m)
               /\ pc' = "loaded"
          ELSE /\ attrs' = cleared
               /\ _keys' = <<>>
               /\ pc' = IF l.status = "exit" THEN "exited" ELSE "raised"
       /\ UNCHANGED <<default_cfg, local_cfg, snap>>

\* Config(): the first call of the singleton constructs the store and
\* loads the two sources as they are found
Construct ==
    /\ pc = "uninitialized"
    /\ \E dfile \in DefaultFiles, ufile \in UserFiles : reset(dfile, ufile)

\* cfg.reset() on the loaded store, with the two sources as they are found
\* at that time
Reset ==
    /\ pc = "loaded"
    /\ \E dfile \in DefaultFiles, ufile \in UserFiles : reset(dfile, ufile)

\* cfg.name / cfg[name]
Get ==
    /\ pc = "loaded"
    /\ \E name \in SectionNames :
         /\ call' = [NoCall EXCEPT !.op = "get", !.name = name]
         /\ ret' = __getattr__(attrs, name)
    /\ UNCHANGED <<pc, attrs, _keys, stdout, config, issues_to_print, result, default_file,
                   user_file, _working_dir, _resources_dir, default_cfg, local_cfg, snap>>

\* cfg.get_part(name)
GetPart ==
    /\ pc = "loaded"
    /\ \E name \in SectionNames :
         LET r == get_part(attrs, name)
         IN /\ call' = [NoCall EXCEPT !.op = "get_part", !.name = name, !.attrs = attrs]
            /\ ret' = r.ret
            /\ attrs' = r.attrs
    /\ UNCHANGED <<pc, _keys, stdout, config, issues_to_print, result, default_file,
                   user_file, _working_dir, _resources_dir, default_cfg, local_cfg, snap>>

Next == Construct \/ Reset \/ Get \/ GetPart

Spec == Init /\ [][Next]_vars

(* ---------------------------------------------------------------------- *)
(* Claims about the store                                                 *)
(* ---------------------------------------------------------------------- *)
\* C5 (as claimed): after a construction or reset whose merge pass ran, at
\* least one recorded issue means the report was printed and the process
\* exited; no issue means no report and a loaded store.
C5_AnyIssueReportsAndAborts ==
    (call.op = "reset" /\ call.merged) =>
       IF Len(issues_to_print) >= 1
       THEN "report" \in stdout /\ pc = "exited"
       ELSE "report" \notin stdout /\ pc = "loaded"

====
